---- MODULE Spec2Model ----
(***************************************************************************)
(* Signing workflow of the e-sign backend: the customer-sign and           *)
(* company-sign handlers, the signature store, the contract row and the    *)
(* finalization pipeline (render, OneAuthen countersign, email,            *)
(* final_sent_at bookkeeping).                                             *)
(*                                                                         *)
(* Database semantics.  Every handler runs on its own pooled connection    *)
(* inside beginTransaction .. commit/rollback and never sets an isolation  *)
(* level, so the transactions run under the InnoDB default, REPEATABLE     *)
(* READ: a plain SELECT is a non-locking consistent read of the snapshot   *)
(* taken by the transaction's first SELECT, overlaid with the              *)
(* transaction's own writes; INSERT .. ON DUPLICATE KEY UPDATE and UPDATE  *)
(* act on the latest committed row and hold an exclusive row lock until    *)
(* the transaction ends.  Each await of a handler is a point at which      *)
(* other requests run.                                                     *)
(***************************************************************************)
EXTENDS Integers, Sequences, FiniteSets, TLC

(***************************************************************************)
(* Bounds of the model                                                     *)
(***************************************************************************)
\* number of signing requests issued over one behaviour
MaxCalls == 3

\* number of contracts created over one behaviour, and the last clock tick
MaxCreates == 3
MaxClock == 2

\* request slots: the requests that can be in flight at the same time
Reqs == {"r1", "r2"}

SlotBefore(a, b) == a = "r1" /\ b = "r2"

(***************************************************************************)
(* Values                                                                  *)
(***************************************************************************)
\* validateRoleBasic: role.length > 100 is rejected
MaxRoleLen == 100

\* A role identifier is a string; it is modelled as the sequence of the
\* words it is made of, so that includes() and toLowerCase() can be computed.
CUST_A == <<"customer", "_a">>
CUST_B == <<"customer", "_b">>
CUST_C == <<"Customer", "_c">>
COMP_A == <<"company", "_a">>
COMP_B == <<"COMPANY", "_b">>
PLAIN_ROLE == <<"witness">>
EMPTY_ROLE == <<>>
LONG_ROLE == <<"customer", "_x101">>
CUST_DIRECTOR == <<"customer", "_director">>
\* a role with a colon in it: "customer:x"
COLON_ROLE == <<"customer", ":", "x">>
COMP_WITNESS == <<"company", "_witness">>
\* a role that names both parties, a role with surrounding blanks, a blank role
COMP_CUST == <<"company", "_a", "customer">>
PADDED_CUST_A == <<" ", "customer", "_a", " ">>
BLANK_ROLE == <<" ">>

Roles == {CUST_A, CUST_B, CUST_C, COMP_A, COMP_B, PLAIN_ROLE, EMPTY_ROLE, LONG_ROLE,
          CUST_DIRECTOR, COMP_WITNESS, COLON_ROLE}

\* number of characters of a word
CharLen(w) ==
  CASE w = "customer" -> 8
    [] w = "Customer" -> 8
    [] w = "company" -> 7
    [] w = "COMPANY" -> 7
    [] w = "witness" -> 7
    [] w = "_x101" -> 101
    [] w = "_director" -> 9
    [] w = "_witness" -> 8
    [] w = " " -> 1
    [] w = ":" -> 1
    [] w = "," -> 1
    [] w = "x" -> 1
    [] OTHER -> 2

RECURSIVE StrLen(_)
StrLen(s) == IF s = <<>> THEN 0 ELSE CharLen(Head(s)) + StrLen(Tail(s))

\* String.prototype.toLowerCase, word by word
LowerWord(w) ==
  CASE w = "Customer" -> "customer"
    [] w = "COMPANY" -> "company"
    [] OTHER -> w

toLowerCase(s) == [i \in 1..Len(s) |-> LowerWord(s[i])]

\* String.prototype.includes for a one-word needle
includes(s, w) == \E i \in 1..Len(s) : s[i] = w

\* An image payload is a string, modelled as <<prefix, body>>; the empty
\* sequence is null / the empty string (both falsy).
NoImage == <<>>
IMG_1 == <<"data:image/", "png1">>
IMG_2 == <<"data:image/", "png2">>
BAD_IMG == <<"text/plain", "png1">>

\* SQL NULL / JavaScript null of a string-valued column
NULL == "NULL"

DOC == "DOC-1"
NO_DOC == "DOC-404"

(***************************************************************************)
(* Pure helpers                                                            *)
(***************************************************************************)
\* isDataUrl: a string that starts with "data:image/"
isDataUrl(s) == Len(s) > 0 /\ s[1] = "data:image/"

\* JavaScript truthiness of a string-or-null value
Truthy(s) == s # <<>>

\* String.prototype.trim on a word sequence (" " is the whitespace word)
RECURSIVE TrimLeft(_)
TrimLeft(s) == IF s # <<>> /\ Head(s) = " " THEN TrimLeft(Tail(s)) ELSE s

RECURSIVE TrimRight(_)
TrimRight(s) ==
  IF s # <<>> /\ s[Len(s)] = " " THEN TrimRight(SubSeq(s, 1, Len(s) - 1)) ELSE s

Trim(s) == TrimRight(TrimLeft(s))

\* s.slice(0, max): the words that fit entirely, then "~" for the kept part
\* of a word that is cut
RECURSIVE Slice(_, _)
Slice(s, max) ==
  IF s = <<>> \/ max <= 0 THEN <<>>
  ELSE IF CharLen(Head(s)) <= max
       THEN <<Head(s)>> \o Slice(Tail(s), max - CharLen(Head(s)))
       ELSE <<"~">>

\* safeStr: null for null / blank, otherwise trimmed and cut to max
safeStr(s, max) ==
  LET v == Trim(s)
  IN  IF v = <<>> THEN <<>>
      ELSE IF StrLen(v) > max THEN Slice(v, max) ELSE v

validateRoleBasic(role) == role # <<>> /\ StrLen(role) <= MaxRoleLen

\* [...new Set(roles)]: first occurrences, in order
RECURSIVE Uniq(_)
Uniq(s) ==
  IF s = <<>> THEN <<>>
  ELSE LET init == Uniq(SubSeq(s, 1, Len(s) - 1))
           last == s[Len(s)]
       IN  IF \E i \in 1..Len(init) : init[i] = last THEN init
           ELSE Append(init, last)

\* the role of one config.signatures entry: role, or id as fallback
EntryRole(e) ==
  IF Truthy(safeStr(e.role, MaxRoleLen)) THEN safeStr(e.role, MaxRoleLen)
  ELSE safeStr(e.id, MaxRoleLen)

RECURSIVE EntryRoles(_)
EntryRoles(sigsCfg) ==
  IF sigsCfg = <<>> THEN <<>>
  ELSE LET r == EntryRole(Head(sigsCfg))
       IN  (IF Truthy(r) THEN <<r>> ELSE <<>>) \o EntryRoles(Tail(sigsCfg))

extractRequiredRolesFromConfig(cfg) == Uniq(EntryRoles(cfg))

\* IsCustomerRole that compares the name as written
IsCustomerRoleAsWritten(r) == includes(r, "customer")

IsCustomerRole(r) == includes(toLowerCase(r), "customer")
IsCompanyRole(r) == ~IsCustomerRole(r) /\ includes(toLowerCase(r), "company")

splitRolesBySigner(requiredRoles) ==
  [customer |-> SelectSeq(requiredRoles, IsCustomerRole),
   company  |-> SelectSeq(requiredRoles, IsCompanyRole)]

SeqToSet(s) == {s[i] : i \in 1..Len(s)}

\* assertRolesAllowed: index of the first payload role that is not allowed,
\* 0 when every role is allowed
assertRolesAllowed(payloadRoles, allowedRoles) ==
  LET bad == {i \in 1..Len(payloadRoles) : payloadRoles[i] \notin SeqToSet(allowedRoles)}
  IN  IF bad = {} THEN 0 ELSE CHOOSE i \in bad : \A j \in bad : i <= j

\* Array.prototype.join
RECURSIVE JoinWith(_, _)
JoinWith(list, sep) ==
  IF list = <<>> THEN <<>>
  ELSE IF Len(list) = 1 THEN Head(list)
       ELSE Head(list) \o sep \o JoinWith(Tail(list), sep)

\* String.prototype.split on a one-character separator
RECURSIVE SplitOn(_, _)
SplitOn(s, sep) ==
  LET at == {i \in 1..Len(s) : s[i] = sep}
  IN  IF at = {} THEN <<s>>
      ELSE LET i == CHOOSE k \in at : \A j \in at : k <= j
           IN  <<SubSeq(s, 1, i - 1)>> \o SplitOn(SubSeq(s, i + 1, Len(s)), sep)

\* the message of the Error assertRolesAllowed throws for role r
RoleNotAllowedError(r, allowedRoles) ==
  <<"ROLE_NOT_ALLOWED", ":">> \o r \o <<":">> \o JoinWith(allowedRoles, <<",", " ">>)

\* the handler's reading of that message: parts = msg.split(":"), the role
\* is parts[1], the allowed list is parts[2] split on "," , trimmed, non-empty
ReportedRole(msg) == SplitOn(msg, ":")[2]

ReportedAllowed(msg) ==
  LET parts == SplitOn(msg, ":")
      raw == SplitOn(IF Len(parts) >= 3 THEN parts[3] ELSE <<>>, ",")
  IN  SelectSeq([i \in 1..Len(raw) |-> Trim(raw[i])], Truthy)

\* A row of the signatures table of the contract: role, signature_image and
\* signer_role (here party).  The table is a set of rows.
SigRow(role, image, party) == [role |-> role, image |-> image, party |-> party]

Parties == {"CUSTOMER", "COMPANY"}

\* the roles that have a row
RowRoles(rows) == {x.role : x \in rows}

\* the row of a role
RowOf(rows, role) == CHOOSE x \in rows : x.role = role

\* groupSignaturesToMap: party -> role -> row, for the rows of each party
groupSignaturesToMap(rows) ==
  [p \in Parties |->
     [role \in RowRoles({x \in rows : x.party = p}) |->
        RowOf({x \in rows : x.party = p}, role)]]

\* assertSignedAll that reports no role as missing
assertSignedAllNone(requiredRoles, signedMap, signerRole) == <<>>

\* assertSignedAll: the required roles without a truthy image under signerRole
assertSignedAll(requiredRoles, signedMap, signerRole) ==
  LET Missing(r) ==
        \/ r \notin DOMAIN signedMap[signerRole]
        \/ ~Truthy(signedMap[signerRole][r].image)
  IN  SelectSeq(requiredRoles, Missing)

\* SignedCount that counts the stored rows of both parties
SignedCountAllParties(signedMap, party) ==
  Cardinality(DOMAIN signedMap["CUSTOMER"]) + Cardinality(DOMAIN signedMap["COMPANY"])

\* Object.keys(map[party]).length
SignedCount(signedMap, party) == Cardinality(DOMAIN signedMap[party])

\* String(s || "").trim() of a contact address
TrimEmail(e) == IF e \in {NULL, "", " "} THEN "" ELSE e

\* uniqEmails: trimmed, non-empty, deduplicated
uniqEmails(arr) ==
  LET Keep(e) == e # ""
  IN  Uniq(SelectSeq([i \in 1..Len(arr) |-> TrimEmail(arr[i])], Keep))

(***************************************************************************)
(* Inputs                                                                  *)
(***************************************************************************)
\* one entry of config.signatures
Entry(role) == [role |-> role, id |-> <<>>]

CFG_TWO == <<Entry(CUST_A), Entry(COMP_A)>>
CFG_THREE == <<Entry(CUST_A), Entry(CUST_B), Entry(CUST_C), Entry(COMP_A)>>

\* the configuration of the two-party scenario: one role of each party
CFG_SCENARIO == <<Entry(CUST_DIRECTOR), Entry(COMP_WITNESS)>>

\* a configuration without a role of the company naming convention
CFG_NO_COMPANY == <<Entry(CUST_A), Entry(PLAIN_ROLE)>>

\* the configurations a contract is created with
Configs == {CFG_TWO, CFG_THREE}

\* the configurations of the contracts signed by one request at a time
SequentialConfigs == Configs \cup {CFG_SCENARIO, CFG_NO_COMPANY}

\* one entry of config.signatures with an id
EntryId(role, id) == [role |-> role, id |-> id]

\* configurations with repeated roles, roles given by id, blank and missing
\* roles, mixed-case and two-party names, unclassified, padded and
\* over-long roles, and no signatures at all
CFG_DUP == <<Entry(CUST_B), Entry(COMP_A), Entry(CUST_A), Entry(CUST_B), Entry(COMP_A)>>
CFG_ID == <<EntryId(EMPTY_ROLE, CUST_A), EntryId(BLANK_ROLE, COMP_A),
            EntryId(EMPTY_ROLE, EMPTY_ROLE), EntryId(CUST_B, COMP_B)>>
CFG_CASE == <<Entry(COMP_CUST), Entry(COMP_B), Entry(CUST_C), Entry(PLAIN_ROLE)>>
CFG_PADDED == <<Entry(PADDED_CUST_A), Entry(COMP_A), Entry(CUST_A)>>
CFG_LONG == <<Entry(LONG_ROLE), Entry(COMP_A)>>
CFG_NONE == <<>>

\* a role of each party and a role of neither naming convention
CFG_UNCLASSIFIED == <<Entry(CUST_A), Entry(PLAIN_ROLE), Entry(COMP_A)>>

\* one customer role and two company roles
CFG_TWO_COMPANY == <<Entry(CUST_A), Entry(COMP_A), Entry(COMP_WITNESS)>>

ExtractorConfigs ==
  {CFG_TWO, CFG_NO_COMPANY, CFG_DUP, CFG_ID, CFG_CASE, CFG_PADDED, CFG_LONG, CFG_NONE,
   CFG_UNCLASSIFIED, CFG_TWO_COMPANY}

Item(role, image) == [role |-> role, image |-> image]

\* the signatures payloads of the requests, after normalizeSignaturesPayload
Payloads ==
  { <<Item(CUST_A, IMG_1)>>, <<Item(CUST_A, IMG_2)>>, <<Item(CUST_B, IMG_1)>>,
    <<Item(CUST_C, IMG_1)>>, <<Item(COMP_A, IMG_1)>>,
    <<Item(CUST_B, IMG_1), Item(CUST_A, IMG_1)>> }

\* payloads that fail validation whatever the contract is
BadPayloads == { <<Item(CUST_A, BAD_IMG)>>, <<Item(EMPTY_ROLE, IMG_1)>> }

\* a request: document id, payload, and whether the SELECT of the contract
\* row succeeds
Input(doc, items, dbOk) == [doc |-> doc, items |-> items, dbOk |-> dbOk]

\* the requests issued while several requests are in flight
ConcurrentInputs ==
  {Input(DOC, p, TRUE) : p \in Payloads} \cup {Input(DOC, <<Item(CUST_A, BAD_IMG)>>, TRUE)}

\* the requests issued one at a time
\* the requests made against the configurations of ExtractorConfigs
ExtractorInputs ==
  {Input(DOC, p, TRUE) : p \in {<<Item(CUST_A, IMG_1)>>, <<Item(CUST_B, IMG_1)>>,
                                <<Item(COMP_A, IMG_1)>>, <<Item(PLAIN_ROLE, IMG_1)>>}}

\* the requests that sign CFG_TWO
PoolInputs ==
  {Input(DOC, p, TRUE) : p \in {<<Item(CUST_A, IMG_1)>>, <<Item(COMP_A, IMG_1)>>}}

\* the requests made to the handlers of src/index.js: signatures objects of
\* one role, of two roles, with an invalid image, and the empty object {}
IndexInputs ==
  {Input(DOC, p, TRUE) : p \in {<<Item(CUST_A, IMG_1)>>, <<Item(COMP_A, IMG_1)>>,
                                <<Item(CUST_B, IMG_1), Item(CUST_A, IMG_1)>>,
                                <<Item(CUST_A, IMG_1), Item(CUST_B, BAD_IMG)>>,
                                <<>>}}
  \cup {Input(NO_DOC, <<Item(CUST_A, IMG_1)>>, TRUE),
        Input(DOC, <<Item(CUST_A, IMG_1)>>, FALSE)}

ScenarioPayloads == { <<Item(CUST_DIRECTOR, IMG_1)>>, <<Item(COMP_WITNESS, IMG_1)>> }

\* payloads with a valid role that no configuration requires
UnknownRolePayloads == { <<Item(PLAIN_ROLE, IMG_1)>>, <<Item(COLON_ROLE, IMG_1)>> }

\* payloads with more than one defect
DefectPayloads ==
  { <<Item(PLAIN_ROLE, BAD_IMG)>>,
    <<Item(EMPTY_ROLE, BAD_IMG)>>,
    <<Item(LONG_ROLE, IMG_1)>>,
    <<Item(CUST_A, BAD_IMG), Item(EMPTY_ROLE, IMG_1)>>,
    <<Item(PLAIN_ROLE, IMG_1), Item(CUST_A, BAD_IMG)>> }

SequentialInputs ==
  {Input(DOC, p, TRUE) : p \in Payloads \cup ScenarioPayloads \cup UnknownRolePayloads
                               \cup BadPayloads \cup DefectPayloads \cup {<<>>}}
  \cup {Input(NO_DOC, <<Item(CUST_A, IMG_1)>>, TRUE),
        Input(NO_DOC, <<Item(PLAIN_ROLE, BAD_IMG)>>, TRUE),
        Input(DOC, <<Item(CUST_A, IMG_1)>>, FALSE)}

\* connectionLimit of mysql.createPool
ConnectionLimit == 10

\* a pool as small as the number of requests that can be in flight
SmallPool == 2

\* the addresses POST /api/send-sign-email is called with: one valid address
\* while requests overlap; two valid ones and one that is no address
CustomerEmails == {"customer@example.com"}
ReplacingEmails == {"customer@example.com", "other@example.com", "customer.example.com"}

\* isEmail: text, "@", text, ".", text, without blanks
isEmail(s) == s \in {"customer@example.com", "other@example.com", "company@example.com"}

\* COMPANY_EMAIL of the environment, required non-empty by POST /api/contracts
CompanyEmail == "company@example.com"

\* a COMPANY_EMAIL of blanks only: it passes the !companyEmail check
BlankCompanyEmail == " "

CompanyEmails == {CompanyEmail}

SequentialCompanyEmails == {CompanyEmail, BlankCompanyEmail}

\* the bytes renderPdfFromUrl returns
RENDERED == <<"render">>

\* signPdfWithOneAuthen: the response of the signing authority to the bytes
signPdfWithOneAuthen(pdfBuffer) == <<"oneauthen">> \o pdfBuffer

(***************************************************************************)
(* State                                                                   *)
(***************************************************************************)
VARIABLES
  config,            \* contracts.config of the contract
  oneAuthenEnabled,  \* ONEAUTHEN_ENABLED
  contract,          \* the committed contracts row
  sigs,              \* the committed signatures rows of the contract
  req,               \* the in-flight requests, by slot
  inputs,            \* the requests the clients choose from
  calls,             \* number of signing requests issued so far
  notifyMails,       \* company notifications sent
  finalMails,        \* final-document emails sent
  finalWrites,       \* times the final_sent_at update affected a row
  firstReports,      \* responses that reported the first dispatch
  connectionLimit,   \* connectionLimit of the pool
  addresses,         \* the addresses send-sign-email is called with
  uniqueIndex,       \* the contracts table has a unique index on document_id
  clock,             \* Date.now()
  documents          \* the contracts rows inserted by POST /api/contracts

\* what the deployment fixes, and what contract creation writes
environment == <<connectionLimit, addresses, uniqueIndex>>
registry == <<clock, documents>>

vars == <<config, oneAuthenEnabled, contract, sigs, req, inputs, calls,
          notifyMails, finalMails, finalWrites, firstReports,
          connectionLimit, addresses, uniqueIndex, clock, documents>>

\* a response: HTTP status, message, the role it names, its missing / allowed
\* list, signedCount and requiredCount; NoResp: not responded
NoResp == [status |-> 0, message |-> "", role |-> <<>>, list |-> <<>>,
           signedCount |-> 0, requiredCount |-> 0]

Resp(status, message) == [NoResp EXCEPT !.status = status, !.message = message]

RespRole(status, message, role, list) ==
  [NoResp EXCEPT !.status = status, !.message = message, !.role = role, !.list = list]

RespPartial(message, signedCount, requiredCount, missing) ==
  [NoResp EXCEPT !.status = 200, !.message = message, !.list = missing,
                 !.signedCount = signedCount, !.requiredCount = requiredCount]

NoSigs == {}

\* the contract variable of a handler before the row is loaded
NoContract == [status |-> "NONE", company_email |-> NULL,
               customer_email |-> NULL, final_sent_at |-> NULL]

IdleReq ==
  [pc |-> "idle", kind |-> "NONE", row |-> NoContract, items |-> <<>>, idx |-> 1,
   view |-> NoSigs, held |-> {}, pdf |-> <<>>, sent |-> FALSE, resp |-> NoResp,
   conn |-> "pool", tx |-> "none"]

\* the state after POST /api/contracts has created the contract
Created(configs, companyEmails) ==
  /\ config \in configs
  /\ oneAuthenEnabled \in BOOLEAN
  /\ contract \in {[status |-> "PENDING", company_email |-> e,
                     customer_email |-> NULL, final_sent_at |-> NULL] : e \in companyEmails}
  /\ sigs = NoSigs
  /\ calls = 0
  /\ notifyMails = 0
  /\ finalMails = 0
  /\ finalWrites = 0
  /\ firstReports = 0
  /\ uniqueIndex = FALSE
  /\ clock = 0
  /\ documents = <<>>

\* requests overlap: every connection of Reqs can be in use
Init ==
  /\ Created(Configs, CompanyEmails)
  /\ req = [r \in Reqs |-> IdleReq]
  /\ inputs = ConcurrentInputs
  /\ connectionLimit = ConnectionLimit
  /\ addresses = CustomerEmails

\* requests arrive one after the other
InitSequential ==
  /\ Created(SequentialConfigs, SequentialCompanyEmails)
  /\ req = [r \in {"r1"} |-> IdleReq]
  /\ inputs = SequentialInputs
  /\ connectionLimit = ConnectionLimit
  /\ addresses = CustomerEmails

\* requests arrive one after the other, for a contract of any configuration
\* shape POST /api/contracts accepts
InitExtractor ==
  /\ Created(ExtractorConfigs, CompanyEmails)
  /\ req = [r \in {"r1"} |-> IdleReq]
  /\ inputs = ExtractorInputs
  /\ connectionLimit = ConnectionLimit
  /\ addresses = ReplacingEmails

\* as many requests can overlap as the pool has connections
InitPool ==
  /\ Created({CFG_TWO}, CompanyEmails)
  /\ req = [r \in Reqs |-> IdleReq]
  /\ inputs = PoolInputs
  /\ connectionLimit = SmallPool
  /\ addresses = CustomerEmails

\* the server of src/index.js: requests arrive one after the other; it has
\* no countersigning step
InitIndex ==
  /\ Created(Configs, CompanyEmails)
  /\ oneAuthenEnabled = FALSE
  /\ req = [r \in {"r1"} |-> IdleReq]
  /\ inputs = IndexInputs
  /\ connectionLimit = ConnectionLimit
  /\ addresses = CustomerEmails

\* no contract exists yet; the contracts table has a unique index on
\* document_id or it has none
InitCreate ==
  /\ config = <<>>
  /\ oneAuthenEnabled = FALSE
  /\ contract = NoContract
  /\ sigs = NoSigs
  /\ req = [r \in {"r1"} |-> IdleReq]
  /\ inputs = {}
  /\ calls = 0
  /\ notifyMails = 0
  /\ finalMails = 0
  /\ finalWrites = 0
  /\ firstReports = 0
  /\ connectionLimit = ConnectionLimit
  /\ addresses = {}
  /\ uniqueIndex \in BOOLEAN
  /\ clock = 0
  /\ documents = <<>>

(***************************************************************************)
(* The signing handlers                                                    *)
(***************************************************************************)
\* the required roles of a party, derived from the stored configuration
Required(kind) ==
  LET split == splitRolesBySigner(extractRequiredRolesFromConfig(config))
  IN  IF kind = "CUSTOMER" THEN split.customer ELSE split.company

\* StatusGuard with a company guard that only rejects a COMPLETED contract
StatusGuardCompletedOnly(kind, status) ==
  IF kind = "CUSTOMER"
  THEN IF status = "COMPLETED" THEN Resp(409, "Contract already completed")
       ELSE IF status = "CUSTOMER_SIGNED" THEN Resp(409, "Customer already signed")
       ELSE NoResp
  ELSE IF status = "COMPLETED"
       THEN Resp(400, "Contract is not ready for company sign")
       ELSE NoResp

\* StatusGuard with a company guard that only rejects a PENDING contract
StatusGuardPendingOnly(kind, status) ==
  IF kind = "CUSTOMER"
  THEN IF status = "COMPLETED" THEN Resp(409, "Contract already completed")
       ELSE IF status = "CUSTOMER_SIGNED" THEN Resp(409, "Customer already signed")
       ELSE NoResp
  ELSE IF status = "PENDING"
       THEN Resp(400, "Contract is not ready for company sign")
       ELSE NoResp

\* the status guard of a handler: the rejection, or NoResp when it passes
StatusGuard(kind, status) ==
  IF kind = "CUSTOMER"
  THEN IF status = "COMPLETED" THEN Resp(409, "Contract already completed")
       ELSE IF status = "CUSTOMER_SIGNED" THEN Resp(409, "Customer already signed")
       ELSE NoResp
  ELSE IF status # "CUSTOMER_SIGNED"
       THEN Resp(400, "Contract is not ready for company sign")
       ELSE NoResp

\* the validation loop over the payload: the first failure, or NoResp
RECURSIVE ValidateItems(_)
ValidateItems(items) ==
  IF items = <<>> THEN NoResp
  ELSE IF ~validateRoleBasic(Head(items).role)
       THEN RespRole(400, "Invalid role", Head(items).role, <<>>)
       ELSE IF ~isDataUrl(Head(items).image)
            THEN RespRole(400, "Invalid signature image for role", Head(items).role, <<>>)
            ELSE ValidateItems(Tail(items))

PayloadRoles(items) == [i \in 1..Len(items) |-> items[i].role]

\* RolesGuard of a handler without the role check
RolesGuardNone(kind, items) == NoResp

\* the role check: the rejection, or NoResp
RolesGuard(kind, items) ==
  LET allowed == Required(kind)
      bad == assertRolesAllowed(PayloadRoles(items), allowed)
      msg == RoleNotAllowedError(items[bad].role, allowed)
  IN  IF bad = 0 THEN NoResp
      ELSE RespRole(400, "Role not allowed", ReportedRole(msg), ReportedAllowed(msg))

\* Precheck of a handler that checks the roles before it validates the items
PrecheckRolesFirst(kind, doc, items, row) ==
  LET guard == StatusGuard(kind, row.status)
      notAllowed == RolesGuard(kind, items)
  IN  IF doc # DOC THEN Resp(404, "Contract not found")
      ELSE IF guard # NoResp THEN guard
      ELSE IF Required(kind) = <<>> THEN Resp(500, "Cannot determine required roles")
      ELSE IF notAllowed # NoResp THEN notAllowed
      ELSE ValidateItems(items)

\* Precheck of a handler that does not stop at an empty required set
PrecheckNoConfigCheck(kind, doc, items, row) ==
  LET guard == StatusGuard(kind, row.status)
      invalid == ValidateItems(items)
  IN  IF doc # DOC THEN Resp(404, "Contract not found")
      ELSE IF guard # NoResp THEN guard
      ELSE IF invalid # NoResp THEN invalid
      ELSE RolesGuard(kind, items)

\* everything the handler decides between the load of the contract row and
\* the first upsert: the rejection, or NoResp when the upserts start
Precheck(kind, doc, items, row) ==
  LET guard == StatusGuard(kind, row.status)
      invalid == ValidateItems(items)
  IN  IF doc # DOC THEN Resp(404, "Contract not found")
      ELSE IF guard # NoResp THEN guard
      ELSE IF Required(kind) = <<>> THEN Resp(500, "Cannot determine required roles")
      ELSE IF invalid # NoResp THEN invalid
      ELSE RolesGuard(kind, items)

Failed(kind) ==
  Resp(500, IF kind = "CUSTOMER" THEN "Customer sign failed" ELSE "Company sign failed")

\* conn.rollback(): ends the open transaction; after the commit it finds
\* nothing to undo
Rollback(q) == [q EXCEPT !.tx = IF q.tx = "open" THEN "rolledback" ELSE q.tx]

\* conn.commit()
Commit(q) == [q EXCEPT !.tx = "committed"]

\* a finished request: the response is kept and the finally block releases
\* the connection; a transaction that was not ended goes back to the pool
\* open
Done(q, resp) ==
  [q EXCEPT !.pc = "done", !.items = <<>>, !.idx = 1, !.view = NoSigs,
            !.held = {}, !.pdf = <<>>, !.resp = resp,
            !.row = [NoContract EXCEPT !.status = q.row.status],
            !.conn = "pool", !.tx = IF q.tx = "open" THEN "open" ELSE "none"]

Free(r) == req[r].pc \in {"idle", "done"}

\* the pool hands out its first free connection
FirstFree(r) == Free(r) /\ \A o \in DOMAIN req : Free(o) => ~SlotBefore(o, r)

\* the pool connections that requests hold
ConnectionsInUse == Cardinality({r \in DOMAIN req : req[r].conn = "held"})

\* the pool has a connection to hand out
ConnectionFree == ConnectionsInUse < connectionLimit

\* The request of a handler up to its first upsert: payload check,
\* getConnection, beginTransaction,
\* getContractByDocumentId (which takes the transaction's snapshot), then
\* the status guard, the required-role check, the validation loop and the
\* role check; dbOk = FALSE is a failure of the SELECT.
Arrival(kind, doc, items, dbOk) ==
  LET q == [IdleReq EXCEPT !.kind = kind]
      qc == [q EXCEPT !.conn = "held", !.tx = "open"]
      qr == [qc EXCEPT !.row = contract]
      rejection == Precheck(kind, doc, items, contract)
  IN  IF items = <<>> THEN Done(q, Resp(400, "signatures payload is empty"))
      ELSE IF ~dbOk THEN Done(Rollback(qc), Failed(kind))
      ELSE IF doc # DOC THEN Done(Rollback(qc), rejection)
      ELSE IF rejection # NoResp THEN Done(Rollback(qr), rejection)
           ELSE [qr EXCEPT !.pc = "upsert", !.items = items, !.view = sigs]

\* the request takes the first free connection
BeginSign(r, kind, doc, items, dbOk) ==
  /\ FirstFree(r)
  /\ items = <<>> \/ ConnectionFree
  /\ calls < MaxCalls
  /\ calls' = calls + 1
  /\ req' = [req EXCEPT ![r] = Arrival(kind, doc, items, dbOk)]
  /\ UNCHANGED <<environment, registry, config, oneAuthenEnabled, inputs, contract, sigs,
                 notifyMails, finalMails, finalWrites, firstReports>>

\* INSERT of a row that only adds it: no duplicate key is detected
UpsertRowsInsertOnly(rows, role, image, party) ==
  rows \cup {SigRow(role, image, party)}

\* INSERT .. ON DUPLICATE KEY UPDATE on the rows a transaction sees: the row
\* of the role is the new one
UpsertRows(rows, role, image, party) ==
  {x \in rows : x.role # role} \cup {SigRow(role, image, party)}

\* the row lock of (contract, role) is held by an open transaction
Locked(role) == \E o \in DOMAIN req : role \in req[o].held

\* upsertSignature of the next payload item: waits for the row lock, then
\* inserts the row, or, when a committed row exists, overwrites its image
\* and leaves its signer_role as it is
Upsert(r) ==
  /\ req[r].pc = "upsert"
  /\ LET q == req[r]
         it == q.items[q.idx]
         party == IF it.role \in RowRoles(sigs) THEN RowOf(sigs, it.role).party ELSE q.kind
     IN  /\ it.role \in q.held \/ ~Locked(it.role)
         /\ req' = [req EXCEPT ![r] =
              [q EXCEPT !.view = UpsertRows(q.view, it.role, it.image, party),
                        !.held = q.held \cup {it.role},
                        !.idx = q.idx + 1,
                        !.pc = IF q.idx = Len(q.items) THEN "check" ELSE "upsert"]]
  /\ UNCHANGED <<environment, registry, config, oneAuthenEnabled, inputs, contract, sigs, calls,
                 notifyMails, finalMails, finalWrites, firstReports>>

\* TxError whose catch block commits what the transaction wrote
TxErrorCommits(r) ==
  /\ req[r].pc \in {"upsert", "check"}
  /\ sigs' = {x \in sigs : x.role \notin req[r].held}
              \cup {x \in req[r].view : x.role \in req[r].held}
  /\ req' = [req EXCEPT ![r] = Done(Commit(req[r]), Failed(req[r].kind))]
  /\ UNCHANGED <<environment, registry, config, oneAuthenEnabled, inputs, contract, calls,
                 notifyMails, finalMails, finalWrites, firstReports>>

\* TxError whose catch block releases the connection without a rollback
TxErrorNoRollback(r) ==
  /\ req[r].pc \in {"upsert", "check"}
  /\ req' = [req EXCEPT ![r] = Done(req[r], Failed(req[r].kind))]
  /\ UNCHANGED <<environment, registry, config, oneAuthenEnabled, inputs, contract, sigs, calls,
                 notifyMails, finalMails, finalWrites, firstReports>>

\* a query of the open transaction throws (deadlock victim, lock wait
\* timeout, lost connection): catch, rollback, 500, release
TxError(r) ==
  /\ req[r].pc \in {"upsert", "check"}
  /\ req' = [req EXCEPT ![r] = Done(Rollback(req[r]), Failed(req[r].kind))]
  /\ UNCHANGED <<environment, registry, config, oneAuthenEnabled, inputs, contract, sigs, calls,
                 notifyMails, finalMails, finalWrites, firstReports>>

\* the value CURRENT_TIMESTAMP writes into final_sent_at
SENT_TS == "TS"

\* NextStatus of a company handler that writes the customer's status
NextStatusCustomerSigned(kind) == "CUSTOMER_SIGNED"

\* the status a party's transition writes
NextStatus(kind) == IF kind = "CUSTOMER" THEN "CUSTOMER_SIGNED" ELSE "COMPLETED"

PartialMessage(kind) ==
  IF kind = "CUSTOMER" THEN "Customer signed partially" ELSE "Company signed partially"

\* the signature rows after the commit of request q
Committed(q) ==
  {x \in sigs : x.role \notin q.held} \cup {x \in q.view : x.role \in q.held}

\* AfterCompleted of a handler that starts the pipeline before its commit
AfterCompletedInTx(q) ==
  IF uniqEmails(<<q.row.company_email, q.row.customer_email>>) = <<>>
  THEN Done(q, Resp(200, "Company signed successfully (no recipients)"))
  ELSE IF q.row.final_sent_at # NULL
       THEN Done(q, Resp(200, "Company signed successfully (PDF already sent)"))
       ELSE [q EXCEPT !.pc = "render"]

\* AfterCompleted of a handler without the recipients check
AfterCompletedAnyRecipients(q) ==
  IF q.row.final_sent_at # NULL
  THEN Done(q, Resp(200, "Company signed successfully (PDF already sent)"))
  ELSE [q EXCEPT !.pc = "render", !.view = NoSigs, !.held = {}, !.items = <<>>, !.idx = 1]

\* what the company handler does between its commit and the first await of
\* the pipeline: recipients check, then the final_sent_at check on the row
\* it loaded at the start
AfterCompleted(q) ==
  IF uniqEmails(<<q.row.company_email, q.row.customer_email>>) = <<>>
  THEN Done(q, Resp(200, "Company signed successfully (no recipients)"))
  ELSE IF q.row.final_sent_at # NULL
       THEN Done(q, Resp(200, "Company signed successfully (PDF already sent)"))
       ELSE [q EXCEPT !.pc = "render", !.view = NoSigs, !.held = {}, !.items = <<>>, !.idx = 1]

\* AfterCustomerSigned of a handler that does not notify the company
AfterCustomerSignedNoNotify(q) == Done(q, Resp(200, "Customer signed successfully"))

\* what the customer handler does after its commit: notify when the loaded
\* row has a company address
AfterCustomerSigned(q) ==
  IF q.row.company_email # NULL /\ q.row.company_email # ""
  THEN [q EXCEPT !.pc = "notify", !.view = NoSigs, !.held = {}, !.items = <<>>, !.idx = 1]
  ELSE Done(q, Resp(200, "Customer signed successfully"))

\* CheckAndCommit that decides completeness from the number of submissions
CheckAndCommitByCalls(r) ==
  /\ req[r].pc = "check"
  /\ LET q == req[r]
         required == Required(q.kind)
         map == groupSignaturesToMap(q.view)
         missing == IF calls >= Len(required) THEN <<>>
                    ELSE assertSignedAll(required, map, q.kind)
     IN  /\ sigs' = Committed(q)
         /\ IF missing # <<>>
            THEN /\ contract' = contract
                 /\ req' = [req EXCEPT ![r] =
                      Done(Commit(q), RespPartial(PartialMessage(q.kind),
                                          SignedCount(map, q.kind), Len(required), missing))]
            ELSE /\ contract' = [contract EXCEPT !.status = NextStatus(q.kind)]
                 /\ req' = [req EXCEPT ![r] =
                      IF q.kind = "CUSTOMER" THEN AfterCustomerSigned(Commit(q))
                      ELSE AfterCompleted(Commit(q))]
  /\ UNCHANGED <<environment, registry, config, oneAuthenEnabled, inputs, calls,
                 notifyMails, finalMails, finalWrites, firstReports>>

\* After the last upsert: getSignaturesByContractId (snapshot plus own
\* writes), groupSignaturesToMap, assertSignedAll; roles missing: commit and
\* answer partial; none missing: UPDATE contracts SET status, commit.
CheckAndCommit(r) ==
  /\ req[r].pc = "check"
  /\ LET q == req[r]
         required == Required(q.kind)
         map == groupSignaturesToMap(q.view)
         missing == assertSignedAll(required, map, q.kind)
     IN  /\ sigs' = Committed(q)
         /\ IF missing # <<>>
            THEN /\ contract' = contract
                 /\ req' = [req EXCEPT ![r] =
                      Done(Commit(q), RespPartial(PartialMessage(q.kind),
                                          SignedCount(map, q.kind), Len(required), missing))]
            ELSE /\ contract' = [contract EXCEPT !.status = NextStatus(q.kind)]
                 /\ req' = [req EXCEPT ![r] =
                      IF q.kind = "CUSTOMER" THEN AfterCustomerSigned(Commit(q))
                      ELSE AfterCompleted(Commit(q))]
  /\ UNCHANGED <<environment, registry, config, oneAuthenEnabled, inputs, calls,
                 notifyMails, finalMails, finalWrites, firstReports>>

\* Notify whose failure handling puts the status back to PENDING
NotifyUndoes(r, ok) ==
  /\ req[r].pc = "notify"
  /\ notifyMails' = IF ok THEN notifyMails + 1 ELSE notifyMails
  /\ contract' = IF ok THEN contract ELSE [contract EXCEPT !.status = "PENDING"]
  /\ req' = [req EXCEPT ![r] =
       IF ok THEN Done(req[r], Resp(200, "Customer signed successfully"))
       ELSE Done(Rollback(req[r]), Failed("CUSTOMER"))]
  /\ UNCHANGED <<environment, registry, config, oneAuthenEnabled, inputs, sigs, calls,
                 finalMails, finalWrites, firstReports>>

\* transporter.sendMail to String(company_email).trim(): it throws when the
\* transport fails and when there is no recipient; a throw reaches the catch
\* block, whose rollback finds nothing to undo
Notify(r, ok) ==
  /\ req[r].pc = "notify"
  /\ LET delivered == ok /\ TrimEmail(req[r].row.company_email) # ""
     IN  /\ notifyMails' = IF delivered THEN notifyMails + 1 ELSE notifyMails
         /\ req' = [req EXCEPT ![r] =
              IF delivered THEN Done(req[r], Resp(200, "Customer signed successfully"))
              ELSE Done(Rollback(req[r]), Failed("CUSTOMER"))]
  /\ UNCHANGED <<environment, registry, config, oneAuthenEnabled, inputs, contract, sigs, calls,
                 finalMails, finalWrites, firstReports>>

\* Render of a pipeline that records final_sent_at before it renders
RenderMarksSent(r, ok) ==
  /\ req[r].pc = "render"
  /\ contract' = [contract EXCEPT !.final_sent_at = SENT_TS]
  /\ req' = [req EXCEPT ![r] =
       IF ~ok THEN Done(req[r], Resp(500, "Failed to render PDF"))
       ELSE [req[r] EXCEPT !.pc = IF oneAuthenEnabled THEN "sign" ELSE "mail",
                           !.pdf = RENDERED]]
  /\ UNCHANGED <<environment, registry, config, oneAuthenEnabled, inputs, sigs, calls,
                 notifyMails, finalMails, finalWrites, firstReports>>

\* renderPdfFromUrl
Render(r, ok) ==
  /\ req[r].pc = "render"
  /\ req' = [req EXCEPT ![r] =
       IF ~ok THEN Done(req[r], Resp(500, "Failed to render PDF"))
       ELSE [req[r] EXCEPT !.pc = IF oneAuthenEnabled THEN "sign" ELSE "mail",
                           !.pdf = RENDERED]]
  /\ UNCHANGED <<environment, registry, config, oneAuthenEnabled, inputs, contract, sigs, calls,
                 notifyMails, finalMails, finalWrites, firstReports>>

\* OneAuthenSign that does not assign the signed bytes to pdfBuffer
OneAuthenSignKeepsRender(r, ok) ==
  /\ req[r].pc = "sign"
  /\ req' = [req EXCEPT ![r] =
       IF ~ok THEN Done(req[r], Resp(500, "Failed to sign PDF with OneAuthen"))
       ELSE [req[r] EXCEPT !.pc = "mail"]]
  /\ UNCHANGED <<environment, registry, config, oneAuthenEnabled, inputs, contract, sigs, calls,
                 notifyMails, finalMails, finalWrites, firstReports>>

\* pdfBuffer = await signPdfWithOneAuthen(pdfBuffer); a throw answers 500
OneAuthenSign(r, ok) ==
  /\ req[r].pc = "sign"
  /\ req' = [req EXCEPT ![r] =
       IF ~ok THEN Done(req[r], Resp(500, "Failed to sign PDF with OneAuthen"))
       ELSE [req[r] EXCEPT !.pc = "mail", !.pdf = signPdfWithOneAuthen(req[r].pdf)]]
  /\ UNCHANGED <<environment, registry, config, oneAuthenEnabled, inputs, contract, sigs, calls,
                 notifyMails, finalMails, finalWrites, firstReports>>

\* SendFinalMail of a pipeline that goes on to the bookkeeping when sendMail
\* throws
SendFinalMailSwallows(r, ok) ==
  /\ req[r].pc = "mail"
  /\ finalMails' = IF ok THEN finalMails + 1 ELSE finalMails
  /\ req' = [req EXCEPT ![r] = [req[r] EXCEPT !.pc = "bookkeep", !.sent = ok]]
  /\ UNCHANGED <<environment, registry, config, oneAuthenEnabled, inputs, contract, sigs, calls,
                 notifyMails, finalWrites, firstReports>>

\* transporter.sendMail of the final PDF; a throw reaches the catch block
SendFinalMail(r, ok) ==
  /\ req[r].pc = "mail"
  /\ finalMails' = IF ok THEN finalMails + 1 ELSE finalMails
  /\ req' = [req EXCEPT ![r] =
       IF ~ok THEN Done(Rollback(req[r]), Failed("COMPANY"))
       ELSE [req[r] EXCEPT !.pc = "bookkeep", !.sent = TRUE]]
  /\ UNCHANGED <<environment, registry, config, oneAuthenEnabled, inputs, contract, sigs, calls,
                 notifyMails, finalWrites, firstReports>>

\* the message of the first dispatch names the countersigning when enabled
MsgEmailed ==
  IF oneAuthenEnabled THEN "Company signed successfully (PDF emailed, OneAuthen signed)"
  ELSE "Company signed successfully (PDF emailed)"

\* AffectedRows of an update without the final_sent_at IS NULL condition
AffectedRowsUnconditional(row) == 1

\* rows the conditional UPDATE .. WHERE final_sent_at IS NULL affects
AffectedRows(row) == IF row.final_sent_at = NULL THEN 1 ELSE 0

\* db.query UPDATE contracts SET final_sent_at, which waits for a pool
\* connection other than the one the request holds, and the response
\* chosen from affectedRows; a throw reaches the catch block
UpdateFinalSentAt(r, ok) ==
  /\ req[r].pc = "bookkeep"
  /\ ConnectionFree
  /\ IF ~ok
     THEN /\ req' = [req EXCEPT ![r] = Done(Rollback(req[r]), Failed("COMPANY"))]
          /\ UNCHANGED <<contract, finalWrites, firstReports>>
     ELSE /\ contract' = [contract EXCEPT !.final_sent_at =
               IF AffectedRows(contract) = 1 THEN SENT_TS ELSE contract.final_sent_at]
          /\ finalWrites' = finalWrites + AffectedRows(contract)
          /\ firstReports' = IF AffectedRows(contract) = 0 THEN firstReports
                              ELSE firstReports + 1
          /\ req' = [req EXCEPT ![r] =
               Done(req[r],
                    IF AffectedRows(contract) = 0
                    THEN Resp(200, "Company signed successfully (PDF emailed, final_sent_at was already set)")
                    ELSE Resp(200, MsgEmailed))]
  /\ UNCHANGED <<environment, registry, config, oneAuthenEnabled, inputs, sigs, calls, notifyMails, finalMails>>

\* SendSignEmail that sets the address only while the contract is PENDING
SendSignEmailPendingOnly(email, doc) ==
  /\ ConnectionFree
  /\ contract' = IF isEmail(email) /\ doc = DOC /\ contract.status = "PENDING"
                 THEN [contract EXCEPT !.customer_email = email]
                 ELSE contract
  /\ UNCHANGED <<environment, registry, config, oneAuthenEnabled, inputs, sigs, req, calls,
                 notifyMails, finalMails, finalWrites, firstReports>>

\* POST /api/send-sign-email: 400 for what is no address, 404 for an unknown
\* document, otherwise UPDATE contracts SET customer_email on a pool
\* connection, before the mail is sent
SendSignEmail(email, doc) ==
  /\ ConnectionFree
  /\ contract' = IF isEmail(email) /\ doc = DOC
                 THEN [contract EXCEPT !.customer_email = email]
                 ELSE contract
  /\ UNCHANGED <<environment, registry, config, oneAuthenEnabled, inputs, sigs, req, calls,
                 notifyMails, finalMails, finalWrites, firstReports>>

\* "DOC-" + Date.now()
DocumentId(now) == <<"DOC-", now>>

\* the configurations POST /api/contracts is called with; NoConfig: no
\* config in the body
NoConfig == <<"undefined">>
CreateConfigs == {CFG_TWO, CFG_THREE, NoConfig}

\* POST /api/contracts: 400 without a config, 500 without COMPANY_EMAIL,
\* otherwise INSERT INTO contracts with the document id made of the clock;
\* a failing INSERT (dbOk = FALSE, or a duplicate of an indexed id) answers
\* 500, a successful one returns the document id
CreateContract(cfg, companyEmail, dbOk) ==
  LET id == DocumentId(clock)
      duplicate == \E i \in 1..Len(documents) : documents[i].document_id = id
      inserted == /\ cfg # NoConfig
                  /\ companyEmail # ""
                  /\ dbOk
                  /\ ~(uniqueIndex /\ duplicate)
  IN  /\ Len(documents) < MaxCreates
      /\ documents' = IF inserted
                      THEN Append(documents, [document_id |-> id, config |-> cfg,
                                              status |-> "PENDING",
                                              company_email |-> companyEmail])
                      ELSE documents
      /\ UNCHANGED <<environment, clock, config, oneAuthenEnabled, contract, sigs, req,
                     inputs, calls, notifyMails, finalMails, finalWrites, firstReports>>

\* a millisecond passes
Tick ==
  /\ clock < MaxClock
  /\ clock' = clock + 1
  /\ UNCHANGED <<environment, documents, config, oneAuthenEnabled, contract, sigs, req,
                 inputs, calls, notifyMails, finalMails, finalWrites, firstReports>>

NextCreate ==
  \/ \E cfg \in CreateConfigs, companyEmail \in {CompanyEmail, BlankCompanyEmail, ""},
        dbOk \in BOOLEAN : CreateContract(cfg, companyEmail, dbOk)
  \/ Tick

(***************************************************************************)
(* The signing handlers of src/index.js                                    *)
(***************************************************************************)
\* The request of a handler of src/index.js up to its loop over the roles:
\* 400 without a signatures object (hasBody = FALSE), getConnection,
\* beginTransaction, SELECT of the contract (404 when absent), and in
\* company-sign only the check of status against CUSTOMER_SIGNED; the
\* customer handler selects id and company_email and checks no status.
IndexArrival(kind, doc, hasBody, items, dbOk) ==
  LET q == [IdleReq EXCEPT !.kind = kind]
      qc == [q EXCEPT !.conn = "held", !.tx = "open"]
      qr == [qc EXCEPT !.row = IF kind = "COMPANY" THEN contract
                                ELSE [NoContract EXCEPT
                                        !.company_email = contract.company_email]]
  IN  IF ~hasBody THEN Done(q, Resp(400, "signatures required"))
      ELSE IF ~dbOk THEN Done(Rollback(qc), Failed(kind))
      ELSE IF doc # DOC THEN Done(Rollback(qc), Resp(404, "Contract not found"))
      ELSE IF kind = "COMPANY" /\ contract.status # "CUSTOMER_SIGNED"
           THEN Done(Rollback(qr), Resp(400, "Contract is not ready for company sign"))
           ELSE [qr EXCEPT !.pc = IF items = <<>> THEN "icommit" ELSE "iupsert",
                           !.items = items, !.view = sigs]

IndexBeginSign(r, kind, doc, hasBody, items, dbOk) ==
  /\ FirstFree(r)
  /\ ~hasBody \/ ConnectionFree
  /\ calls < MaxCalls
  /\ calls' = calls + 1
  /\ req' = [req EXCEPT ![r] = IndexArrival(kind, doc, hasBody, items, dbOk)]
  /\ UNCHANGED <<environment, registry, config, oneAuthenEnabled, inputs, contract, sigs,
                 notifyMails, finalMails, finalWrites, firstReports>>

\* one round of the loop over Object.keys(signatures): an image that is no
\* data URL ends the request with a rollback and 400; otherwise INSERT ..
\* ON DUPLICATE KEY UPDATE of the role's row with the handler's party
IndexUpsert(r) ==
  /\ req[r].pc = "iupsert"
  /\ LET q == req[r]
         it == q.items[q.idx]
         party == IF it.role \in RowRoles(sigs) THEN RowOf(sigs, it.role).party ELSE q.kind
     IN  IF ~isDataUrl(it.image)
         THEN req' = [req EXCEPT ![r] =
                Done(Rollback(q), Resp(400, "Invalid signature image"))]
         ELSE /\ it.role \in q.held \/ ~Locked(it.role)
              /\ req' = [req EXCEPT ![r] =
                   [q EXCEPT !.view = UpsertRows(q.view, it.role, it.image, party),
                             !.held = q.held \cup {it.role},
                             !.idx = q.idx + 1,
                             !.pc = IF q.idx = Len(q.items) THEN "icommit" ELSE "iupsert"]]
  /\ UNCHANGED <<environment, registry, config, oneAuthenEnabled, inputs, contract, sigs, calls,
                 notifyMails, finalMails, finalWrites, firstReports>>

\* a query of the open transaction throws: catch, rollback, 500
IndexTxError(r) ==
  /\ req[r].pc \in {"iupsert", "icommit"}
  /\ req' = [req EXCEPT ![r] = Done(Rollback(req[r]), Failed(req[r].kind))]
  /\ UNCHANGED <<environment, registry, config, oneAuthenEnabled, inputs, contract, sigs, calls,
                 notifyMails, finalMails, finalWrites, firstReports>>

\* after the loop: UPDATE contracts SET status of the handler's party, with
\* no look at the stored signatures, commit, then the notification
\* (customer-sign) or the final-document pipeline (company-sign)
IndexCommit(r) ==
  /\ req[r].pc = "icommit"
  /\ LET q == req[r]
     IN  /\ sigs' = Committed(q)
         /\ contract' = [contract EXCEPT !.status = NextStatus(q.kind)]
         /\ req' = [req EXCEPT ![r] =
              IF q.kind = "CUSTOMER" THEN AfterCustomerSigned(Commit(q))
              ELSE AfterCompleted(Commit(q))]
  /\ UNCHANGED <<environment, registry, config, oneAuthenEnabled, inputs, calls,
                 notifyMails, finalMails, finalWrites, firstReports>>

NextIndex ==
  \/ \E r \in DOMAIN req, kind \in Parties, in \in inputs, hasBody \in BOOLEAN :
        IndexBeginSign(r, kind, in.doc, hasBody, in.items, in.dbOk)
  \/ \E r \in DOMAIN req : IndexUpsert(r)
  \/ \E r \in DOMAIN req : IndexTxError(r)
  \/ \E r \in DOMAIN req : IndexCommit(r)
  \/ \E r \in DOMAIN req, ok \in BOOLEAN : Notify(r, ok)
  \/ \E r \in DOMAIN req, ok \in BOOLEAN : Render(r, ok)
  \/ \E r \in DOMAIN req, ok \in BOOLEAN : SendFinalMail(r, ok)
  \/ \E r \in DOMAIN req, ok \in BOOLEAN : UpdateFinalSentAt(r, ok)
  \/ \E email \in addresses, doc \in {DOC, NO_DOC} : SendSignEmail(email, doc)

Next ==
  \/ \E r \in DOMAIN req, kind \in Parties, in \in inputs :
        BeginSign(r, kind, in.doc, in.items, in.dbOk)
  \/ \E r \in DOMAIN req : Upsert(r)
  \/ \E r \in DOMAIN req : TxError(r)
  \/ \E r \in DOMAIN req : CheckAndCommit(r)
  \/ \E r \in DOMAIN req, ok \in BOOLEAN : Notify(r, ok)
  \/ \E r \in DOMAIN req, ok \in BOOLEAN : Render(r, ok)
  \/ \E r \in DOMAIN req, ok \in BOOLEAN : OneAuthenSign(r, ok)
  \/ \E r \in DOMAIN req, ok \in BOOLEAN : SendFinalMail(r, ok)
  \/ \E r \in DOMAIN req, ok \in BOOLEAN : UpdateFinalSentAt(r, ok)
  \/ \E email \in addresses, doc \in {DOC, NO_DOC} : SendSignEmail(email, doc)

Spec == Init /\ [][Next]_vars

SpecSequential == InitSequential /\ [][Next]_vars

SpecExtractor == InitExtractor /\ [][Next]_vars

SpecCreate == InitCreate /\ [][NextCreate]_vars

SpecPool == InitPool /\ [][Next]_vars

SpecIndex == InitIndex /\ [][NextIndex]_vars

(***************************************************************************)
(* Properties                                                              *)
(***************************************************************************)
MsgNotReady == "Contract is not ready for company sign"
MsgAlreadySet == "Company signed successfully (PDF emailed, final_sent_at was already set)"

\* the required roles of a party that have a committed signature
StoredRequired(kind, rows) ==
  {role \in SeqToSet(Required(kind)) :
     \E x \in rows : x.role = role /\ x.party = kind /\ Truthy(x.image)}

AllSigned(kind) == StoredRequired(kind, sigs) = SeqToSet(Required(kind))

\* the status a party's phase starts from
PhaseStatus(kind) == IF kind = "CUSTOMER" THEN "PENDING" ELSE "CUSTOMER_SIGNED"

ReportedPartial(r, kind) ==
  /\ req[r].pc = "done"
  /\ req[r].kind = kind
  /\ req[r].resp.message = PartialMessage(kind)

\* C1: two signing requests of one party whose roles together cover the
\* party's required set never both end partial with every required role
\* stored and the status not advanced.
C1_AttemptsSerialize ==
  \A kind \in Parties : \A r1, r2 \in DOMAIN req :
    ~ /\ r1 # r2
      /\ ReportedPartial(r1, kind)
      /\ ReportedPartial(r2, kind)
      /\ SeqToSet(req[r1].resp.list) \cap SeqToSet(req[r2].resp.list) = {}
      /\ AllSigned(kind)
      /\ contract.status = PhaseStatus(kind)

\* C2: the only status changes are PENDING to CUSTOMER_SIGNED and
\* CUSTOMER_SIGNED to COMPLETED.
C2_StatusMonotone ==
  [][contract'.status # contract.status =>
       <<contract.status, contract'.status>> \in
          {<<"PENDING", "CUSTOMER_SIGNED">>, <<"CUSTOMER_SIGNED", "COMPLETED">>}]_vars

\* C3: final_sent_at is non-null only when the status is COMPLETED, and it
\* is written at most once.
C3_FinalSentOnlyWhenCompleted ==
  /\ contract.final_sent_at # NULL => contract.status = "COMPLETED"
  /\ finalWrites <= 1

\* C4: the final-document email is dispatched at most once per contract.
C4_FinalizedOnce == finalMails <= 1

\* C5: of the finalization attempts that reach the final_sent_at update,
\* exactly one affects a row and reports the first dispatch, every other one
\* affects no row and reports "already set"; final_sent_at is written once.
C5_ConditionalUpdate ==
  /\ finalWrites <= 1
  /\ firstReports = finalWrites
  /\ (finalWrites = 1) = (contract.final_sent_at # NULL)
  /\ \A r \in DOMAIN req :
       req[r].resp.message \in {MsgEmailed, MsgAlreadySet} =>
         /\ req[r].resp.status = 200
         /\ contract.final_sent_at # NULL
  /\ \A r1, r2 \in DOMAIN req :
       r1 # r2 => ~(req[r1].resp.message = MsgEmailed /\ req[r2].resp.message = MsgEmailed)

C5_Witness ==
  \E r1, r2 \in DOMAIN req :
    /\ req[r1].pc = "done" /\ req[r1].resp.message = MsgEmailed
    /\ req[r2].pc = "done" /\ req[r2].resp.message = MsgAlreadySet
    /\ finalMails = 2

\* C6: a request that sent the final email never finishes with
\* final_sent_at null.
C6_SentImpliesRecorded ==
  \A r \in DOMAIN req : req[r].pc = "done" /\ req[r].sent => contract.final_sent_at # NULL

\* a request arrives in slot r in this step
Arrives(r) == Free(r) /\ req'[r] # req[r]

\* C7: a company-sign call that loads a PENDING contract ends at once with
\* the not-ready rejection and changes neither the contract nor a signature.
C7_CompanyOnPendingRejected ==
  [][\A r \in DOMAIN req :
       Arrives(r) /\ req'[r].kind = "COMPANY" /\ req'[r].row.status = "PENDING" =>
         /\ req'[r].pc = "done"
         /\ req'[r].resp = Resp(400, MsgNotReady)
         /\ contract' = contract
         /\ sigs' = sigs]_vars

C7_Witness ==
  \E r \in DOMAIN req :
    /\ req[r].pc = "done" /\ req[r].kind = "COMPANY" /\ req[r].row.status = "PENDING"
    /\ req[r].resp.message = MsgNotReady
    /\ contract.status = "PENDING"

\* C8: a company-sign call that loads a COMPLETED contract ends at once with
\* the not-ready rejection, changes nothing and sends nothing, whether
\* final_sent_at is set or null.
C8_CompanyOnCompletedRejected ==
  [][\A r \in DOMAIN req :
       Arrives(r) /\ req'[r].kind = "COMPANY" /\ req'[r].row.status = "COMPLETED" =>
         /\ req'[r].pc = "done"
         /\ req'[r].resp = Resp(400, MsgNotReady)
         /\ ~req'[r].sent
         /\ UNCHANGED <<contract, sigs, notifyMails, finalMails, finalWrites, firstReports>>]_vars

C8_Witness ==
  \E r \in DOMAIN req :
    /\ req[r].pc = "done" /\ req[r].kind = "COMPANY" /\ req[r].row.status = "COMPLETED"
    /\ req[r].resp.message = MsgNotReady
    /\ contract.status = "COMPLETED"
    /\ contract.final_sent_at = NULL
    /\ \A o \in DOMAIN req : req[o].pc \in {"idle", "done"}

\* C9: a customer-sign call that loads a contract that is not PENDING is
\* rejected without a change, and no customer signature changes once the
\* status is CUSTOMER_SIGNED or COMPLETED.
C9_CustomerPhaseClosed ==
  [][/\ \A r \in DOMAIN req :
          Arrives(r) /\ req'[r].kind = "CUSTOMER"
                     /\ req'[r].row.status \in {"CUSTOMER_SIGNED", "COMPLETED"} =>
            /\ req'[r].pc = "done"
            /\ req'[r].resp.status = 409
            /\ contract' = contract
            /\ sigs' = sigs
     /\ contract.status \in {"CUSTOMER_SIGNED", "COMPLETED"} =>
          \A x \in sigs : x.party = "CUSTOMER" => x \in sigs']_vars

\* request r commits its transaction in this step
Commits(r) == req[r].pc = "check" /\ req'[r].pc # "check" /\ req'[r].resp.status # 500

\* C10: a customer-sign call after which the stored customer signatures are
\* a strict subset of the required set leaves the status PENDING and reports
\* as missing exactly the required roles without a stored signature.
C10_PartialReportsMissing ==
  [][\A r \in DOMAIN req :
       /\ Commits(r)
       /\ req[r].kind = "CUSTOMER"
       /\ StoredRequired("CUSTOMER", sigs') # SeqToSet(Required("CUSTOMER"))
       => /\ contract'.status = "PENDING"
          /\ req'[r].resp.message = PartialMessage("CUSTOMER")
          /\ SeqToSet(req'[r].resp.list) =
               SeqToSet(Required("CUSTOMER")) \ StoredRequired("CUSTOMER", sigs')]_vars

\* request r commits the transition of its party in this step
Transitions(r) == Commits(r) /\ req'[r].resp.message # PartialMessage(req[r].kind)

\* C11: once the customer-sign calls have stored the whole customer-required
\* set the status is no longer PENDING, and the transition to CUSTOMER_SIGNED
\* is committed once, from PENDING, with one company notification.
C11_TransitionExactlyOnce ==
  [][/\ (/\ StoredRequired("CUSTOMER", sigs') = SeqToSet(Required("CUSTOMER"))
         /\ \A r \in DOMAIN req :
              ~(req'[r].kind = "CUSTOMER" /\ req'[r].pc \in {"upsert", "check"}))
          => contract'.status # "PENDING"
     /\ \A r \in DOMAIN req :
          Transitions(r) /\ req[r].kind = "CUSTOMER" => contract.status = "PENDING"
     /\ notifyMails' <= 1]_vars

\* the payload has a role outside the required set of the party
HasDisallowed(kind, items) ==
  \E i \in 1..Len(items) : items[i].role \notin SeqToSet(Required(kind))

\* the first such role of the payload
FirstDisallowed(kind, items) ==
  LET bad == {i \in 1..Len(items) : items[i].role \notin SeqToSet(Required(kind))}
  IN  items[CHOOSE i \in bad : \A j \in bad : i <= j].role

\* the request passes every check the handler makes before the role check
ReachesRoleCheck(kind, in) ==
  /\ in.dbOk /\ in.doc = DOC
  /\ StatusGuard(kind, contract.status) = NoResp
  /\ Required(kind) # <<>>
  /\ ValidateItems(in.items) = NoResp

\* C12: a signing call with a role outside the required set of its party is
\* rejected at once without writing a signature of any of its roles; when
\* it reaches the role check the rejection is the role-not-allowed error
\* naming the offending role and the allowed set.
C12_RoleNotAllowedRejected ==
  [][\A r \in DOMAIN req, kind \in Parties, in \in inputs :
       BeginSign(r, kind, in.doc, in.items, in.dbOk) /\ HasDisallowed(kind, in.items) =>
         /\ req'[r].pc = "done"
         /\ req'[r].resp.status >= 400
         /\ req'[r].held = {}
         /\ sigs' = sigs
         /\ contract' = contract
         /\ ReachesRoleCheck(kind, in) =>
              req'[r].resp = RespRole(400, "Role not allowed",
                                      FirstDisallowed(kind, in.items), Required(kind))]_vars

\* the rows of a role
RowsOf(rows, role) == {x \in rows : x.role = role}

\* request r executes an upsert in this step
Upserts(r) == req[r].pc = "upsert" /\ req'[r].pc \in {"upsert", "check"} /\ req'[r] # req[r]

\* C13: after the upsert of role R with image X the signatures the
\* transaction reads hold exactly one row of R, with image X, whatever was
\* stored for R before; the commit stores exactly that row; the committed
\* store never holds two rows of one role.
C13_UpsertRoundTrip ==
  [][/\ \A role \in RowRoles(sigs') : Cardinality(RowsOf(sigs', role)) = 1
     /\ \A r \in DOMAIN req :
          /\ Upserts(r) =>
               LET it == req[r].items[req[r].idx]
                   read == RowsOf(req'[r].view, it.role)
               IN  Cardinality(read) = 1 /\ \A x \in read : x.image = it.image
          /\ Commits(r) =>
               \A role \in req[r].held :
                 /\ Cardinality(RowsOf(sigs', role)) = 1
                 /\ RowsOf(sigs', role) = RowsOf(req[r].view, role)]_vars

C13_Witness ==
  \E r \in DOMAIN req : \E x \in sigs : \E y \in req[r].view :
    /\ req[r].pc = "check"
    /\ y.role \in req[r].held
    /\ x.role = y.role
    /\ x.image # y.image

\* C15: status CUSTOMER_SIGNED or COMPLETED implies a stored signature with
\* an image for every customer-required role, COMPLETED also for every
\* company-required role, and no company signature is stored while the
\* status is PENDING.
C15_StatusImpliesSigned ==
  /\ contract.status \in {"CUSTOMER_SIGNED", "COMPLETED"} => AllSigned("CUSTOMER")
  /\ contract.status = "COMPLETED" => AllSigned("COMPANY")
  /\ contract.status = "PENDING" => \A x \in sigs : x.party # "COMPANY"

C15_Witness ==
  /\ config = CFG_THREE
  /\ contract.status = "COMPLETED"
  /\ Cardinality(sigs) = 4

MsgCustomerSigned == "Customer signed successfully"

\* C14: with the configuration customer_director, company_witness and a
\* company address a customer
\* call with customer_director is admitted on PENDING and its commit moves
\* the contract to CUSTOMER_SIGNED and on to the company notification; a
\* company call with company_witness is then admitted and its commit moves
\* the contract to COMPLETED and on to the pipeline, which renders,
\* countersigns when enabled, sends one email and sets final_sent_at.
C14_Scenario ==
  [][config = CFG_SCENARIO /\ contract.company_email = CompanyEmail => \A r \in DOMAIN req :
       /\ BeginSign(r, "CUSTOMER", DOC, <<Item(CUST_DIRECTOR, IMG_1)>>, TRUE)
            /\ contract.status = "PENDING" => req'[r].pc = "upsert"
       /\ Commits(r) /\ req[r].kind = "CUSTOMER" =>
            /\ contract'.status = "CUSTOMER_SIGNED"
            /\ sigs' = {SigRow(CUST_DIRECTOR, IMG_1, "CUSTOMER")}
            /\ req'[r].pc = "notify"
       /\ req[r].pc = "notify" /\ notifyMails' # notifyMails =>
            /\ notifyMails' = 1
            /\ req'[r].resp = Resp(200, MsgCustomerSigned)
       /\ BeginSign(r, "COMPANY", DOC, <<Item(COMP_WITNESS, IMG_1)>>, TRUE)
            /\ contract.status = "CUSTOMER_SIGNED" => req'[r].pc = "upsert"
       /\ Commits(r) /\ req[r].kind = "COMPANY" =>
            /\ contract'.status = "COMPLETED"
            /\ sigs' = {SigRow(CUST_DIRECTOR, IMG_1, "CUSTOMER"),
                        SigRow(COMP_WITNESS, IMG_1, "COMPANY")}
            /\ req'[r].pc = "render"
       /\ req[r].pc = "render" /\ req'[r].pc \notin {"render", "done"} =>
            req'[r].pc = IF oneAuthenEnabled THEN "sign" ELSE "mail"
       /\ req[r].pc = "sign" /\ req'[r].pc \notin {"sign", "done"} => req'[r].pc = "mail"
       /\ req[r].pc = "mail" /\ req'[r].pc = "bookkeep" =>
            finalMails = 0 /\ finalMails' = 1
       /\ req[r].pc = "bookkeep" /\ req'[r].resp.status = 200 =>
            /\ contract'.status = "COMPLETED"
            /\ contract.final_sent_at = NULL
            /\ contract'.final_sent_at = SENT_TS
            /\ req'[r].resp.message = MsgEmailed]_vars

C14_Witness ==
  /\ config = CFG_SCENARIO
  /\ calls = 2
  /\ contract.status = "COMPLETED"
  /\ contract.final_sent_at = SENT_TS
  /\ notifyMails = 1
  /\ finalMails = 1
  /\ \E r \in DOMAIN req : req[r].pc = "done" /\ req[r].resp = Resp(200, MsgEmailed)

\* request r ends in this step with an error raised before its commit: on
\* arrival, during the upserts or at the completeness check
FailsInTransaction(r) ==
  /\ req[r].pc \in {"idle", "done", "upsert", "check"}
  /\ req'[r] # req[r]
  /\ req'[r].pc = "done"
  /\ req'[r].resp.status >= 400

\* C16: a signing call that fails inside its transaction (not found, wrong
\* state, no required role, invalid role or image, role not allowed,
\* database error) leaves the stored signatures and the contract as they
\* were and keeps none of its writes.
C16_FailureLeavesStore ==
  [][\A r \in DOMAIN req :
       FailsInTransaction(r) =>
         /\ sigs' = sigs
         /\ contract' = contract
         /\ req'[r].held = {}
         /\ req'[r].view = NoSigs]_vars

C16_Witness ==
  /\ config = CFG_THREE
  /\ calls = 2
  /\ contract.status = "PENDING"
  /\ sigs = {SigRow(CUST_A, IMG_1, "CUSTOMER")}
  /\ \E r \in DOMAIN req :
       /\ req[r].pc = "done"
       /\ req[r].row.status = "PENDING"
       /\ req[r].resp = Failed("CUSTOMER")

\* the company notification of request r fails in this step
NotifyFails(r) ==
  req[r].pc = "notify" /\ req'[r].pc = "done" /\ notifyMails' = notifyMails

\* C17: a failed company notification leaves the committed transition and
\* the signatures in place: the status stays CUSTOMER_SIGNED and the
\* company-sign status guard lets the company sign.
C17_NotifyFailureKeepsTransition ==
  [][\A r \in DOMAIN req :
       NotifyFails(r) =>
         /\ contract' = contract
         /\ contract'.status = "CUSTOMER_SIGNED"
         /\ sigs' = sigs
         /\ StoredRequired("CUSTOMER", sigs') = SeqToSet(Required("CUSTOMER"))
         /\ StatusGuard("COMPANY", contract'.status) = NoResp]_vars

C17_Witness ==
  /\ notifyMails = 0
  /\ contract.status = "COMPLETED"
  /\ \E r \in DOMAIN req : req[r].kind = "COMPANY" /\ req[r].row.status = "CUSTOMER_SIGNED"

\* C18: a customer-sign call whose notification fails after its commit
\* answers with a successful signing result, not with a signing failure.
C18_NotifyFailureIsWarning ==
  [][\A r \in DOMAIN req :
       NotifyFails(r) =>
         /\ req'[r].resp.status = 200
         /\ req'[r].resp.message # Failed("CUSTOMER").message]_vars

\* C19: a failure of the rendering or of the enabled countersigning ends the
\* request before a final email is sent and leaves the contract COMPLETED
\* with final_sent_at null; no failure of the pipeline changes the status.
C19_RenderSignFailureAborts ==
  [][\A r \in DOMAIN req :
       /\ req[r].pc \in {"render", "sign"} /\ req'[r].pc = "done" =>
            /\ req'[r].resp \in {Resp(500, "Failed to render PDF"),
                                 Resp(500, "Failed to sign PDF with OneAuthen")}
            /\ req[r].pc = "sign" => oneAuthenEnabled
            /\ ~req'[r].sent
            /\ finalMails' = 0
            /\ contract' = contract
            /\ contract'.status = "COMPLETED"
            /\ contract'.final_sent_at = NULL
       /\ req[r].pc \in {"render", "sign", "mail", "bookkeep"}
            /\ req'[r].pc = "done" /\ req'[r].resp.status = 500 =>
            contract.status = "COMPLETED" /\ contract'.status = "COMPLETED"]_vars

C19_Witness ==
  /\ oneAuthenEnabled
  /\ contract.status = "COMPLETED"
  /\ contract.final_sent_at = NULL
  /\ finalMails = 0
  /\ \E r \in DOMAIN req :
       req[r].pc = "done" /\ req[r].resp = Resp(500, "Failed to sign PDF with OneAuthen")

\* a finalization attempt of request r ended without sending
Aborted(r) ==
  /\ req[r].pc = "done"
  /\ req[r].kind = "COMPANY"
  /\ req[r].row.status = "CUSTOMER_SIGNED"
  /\ req[r].resp.status = 500
  /\ ~req[r].sent

\* C20: when a finalization attempt has aborted and the contract is
\* COMPLETED with final_sent_at null, some company-sign request is admitted
\* and runs the finalization again.
C20_FinalizationResumable ==
  (/\ \E r \in DOMAIN req : Aborted(r)
   /\ contract.status = "COMPLETED"
   /\ contract.final_sent_at = NULL)
  => \E in \in inputs :
       /\ in.items # <<>>
       /\ in.dbOk
       /\ Precheck("COMPANY", in.doc, in.items, contract) = NoResp

\* the rows agree with the partition of the required roles
PartyConsistent(rows) ==
  \A x \in rows :
    /\ x.role \in SeqToSet(Required("CUSTOMER")) => x.party = "CUSTOMER"
    /\ x.role \in SeqToSet(Required("COMPANY")) => x.party = "COMPANY"
    /\ x.role \in SeqToSet(Required(x.party))

\* C21: every signature row, committed or written by an open transaction,
\* is stored under the party whose required set holds its role, also after
\* the row was overwritten.
C21_PartyConsistent ==
  /\ PartyConsistent(sigs)
  /\ \A r \in DOMAIN req : PartyConsistent(req[r].view)

C21_Witness ==
  \E r \in DOMAIN req : \E x \in sigs : \E y \in req[r].view :
    /\ req[r].kind = "CUSTOMER"
    /\ y.role \in req[r].held
    /\ y.role = x.role /\ y.party = x.party /\ y.image # x.image

MsgAlreadySent == "Company signed successfully (PDF already sent)"

\* C22: a company-sign request that commits COMPLETED while final_sent_at of
\* the contract is set ends with the already-sent success and never sends
\* the final email.
C22_CheckUsesCurrentValue ==
  [][\A r \in DOMAIN req :
       Transitions(r) /\ req[r].kind = "COMPANY" /\ contract.final_sent_at # NULL =>
         /\ req'[r].pc = "done"
         /\ req'[r].resp = Resp(200, MsgAlreadySent)]_vars

Statuses == {"PENDING", "CUSTOMER_SIGNED", "COMPLETED"}

\* C23: the message of a wrong-stage rejection differs from the message the
\* handlers give for every other combination of party and wrong stage.
C23_DistinctReasons ==
  [][\A r \in DOMAIN req :
       /\ Arrives(r)
       /\ req'[r].row.status \in Statuses
       /\ req'[r].resp.status \in {400, 409}
       /\ req'[r].resp = StatusGuard(req'[r].kind, req'[r].row.status)
       => \A kind \in Parties, status \in Statuses :
            /\ <<kind, status>> # <<req'[r].kind, req'[r].row.status>>
            /\ StatusGuard(kind, status) # NoResp
            => StatusGuard(kind, status).message # req'[r].resp.message]_vars

\* the status does not admit a signing request of the party
WrongStage(kind, status) ==
  IF kind = "CUSTOMER" THEN status # "PENDING" ELSE status # "CUSTOMER_SIGNED"

\* the payload items that fail the validation of the role or of the image
InvalidItems(items) ==
  {i \in 1..Len(items) : ~validateRoleBasic(items[i].role) \/ ~isDataUrl(items[i].image)}

\* the response to the first invalid item: role shape before image
FirstInvalid(items) ==
  LET i == CHOOSE k \in InvalidItems(items) : \A j \in InvalidItems(items) : k <= j
  IN  IF ~validateRoleBasic(items[i].role)
      THEN RespRole(400, "Invalid role", items[i].role, <<>>)
      ELSE RespRole(400, "Invalid signature image for role", items[i].role, <<>>)

\* C24: whenever a signing request can arrive, one that reaches the
\* contract load reports the earliest of: not found, wrong stage, no
\* required role of the party, the first invalid item (role shape before
\* image), role not allowed; without any of them its upserts start.
C24_ErrorOrder ==
  \A kind \in Parties, in \in inputs :
    (\E r \in DOMAIN req : FirstFree(r)) /\ calls < MaxCalls /\ in.items # <<>> /\ in.dbOk =>
      LET out == Arrival(kind, in.doc, in.items, in.dbOk)
      IN  IF in.doc # DOC THEN out.resp = Resp(404, "Contract not found")
          ELSE IF WrongStage(kind, contract.status)
               THEN /\ out.resp.status \in {400, 409}
                    /\ out.resp.message \in
                         {MsgNotReady, "Contract already completed", "Customer already signed"}
          ELSE IF Required(kind) = <<>>
               THEN out.resp = Resp(500, "Cannot determine required roles")
          ELSE IF InvalidItems(in.items) # {} THEN out.resp = FirstInvalid(in.items)
          ELSE IF HasDisallowed(kind, in.items)
               THEN out.resp.status = 400 /\ out.resp.message = "Role not allowed"
          ELSE out.pc = "upsert" /\ out.resp = NoResp

C24_Witness ==
  \E r \in DOMAIN req :
    /\ req[r].pc = "done"
    /\ req[r].kind = "CUSTOMER"
    /\ req[r].row.status = "PENDING"
    /\ req[r].resp = RespRole(400, "Invalid signature image for role", PLAIN_ROLE, <<>>)

\* C25: a customer-sign commit moves the status to CUSTOMER_SIGNED exactly
\* when every customer-required role is then stored, whatever the number
\* and the order of the submissions; otherwise the status stays PENDING and
\* the call reports the number of stored roles.
C25_CompletenessFromStore ==
  [][\A r \in DOMAIN req :
       /\ Commits(r) /\ req[r].kind = "CUSTOMER" =>
            LET stored == StoredRequired("CUSTOMER", sigs')
                all == stored = SeqToSet(Required("CUSTOMER"))
            IN  /\ contract'.status = IF all THEN "CUSTOMER_SIGNED" ELSE "PENDING"
                /\ ~all => /\ req'[r].resp.message = PartialMessage("CUSTOMER")
                            /\ req'[r].resp.signedCount = Cardinality(stored)
                            /\ req'[r].resp.requiredCount = Len(Required("CUSTOMER"))
       /\ req'[r].pc \notin {"upsert", "check"} =>
            (contract'.status = "PENDING") =
              (StoredRequired("CUSTOMER", sigs') # SeqToSet(Required("CUSTOMER")))]_vars

C25_Witness ==
  \E r \in DOMAIN req : \E x \in sigs : \E y \in req[r].view :
    /\ config = CFG_THREE
    /\ contract.status = "PENDING"
    /\ calls = 3
    /\ Cardinality(sigs) = 1
    /\ req[r].pc = "check"
    /\ req[r].view = {y}
    /\ y.role = x.role /\ y.image # x.image

\* request r makes or finishes an external call in this step: the company
\* notification, the rendering, the countersigning or the final email
ExternalCall(r) ==
  req[r].pc \in {"notify", "render", "sign", "mail"} /\ req'[r] # req[r]

\* C26: a request makes its external calls only after its transaction has
\* committed the transition of its party, with no row lock held; a step of
\* a request that has not committed, or that ends partial or rejected,
\* sends nothing.
C26_ExternalCallsAfterCommit ==
  [][/\ \A r \in DOMAIN req :
          /\ ExternalCall(r) =>
               /\ req[r].held = {}
               /\ req[r].view = NoSigs
               /\ contract.status = NextStatus(req[r].kind)
               /\ sigs' = sigs
          /\ req[r].pc \in {"idle", "done", "upsert", "check"} /\ req'[r] # req[r] =>
               notifyMails' = notifyMails /\ finalMails' = finalMails
     /\ notifyMails' # notifyMails \/ finalMails' # finalMails =>
          \E r \in DOMAIN req : ExternalCall(r)]_vars

C26_Witness ==
  \E r \in DOMAIN req :
    /\ req[r].pc = "mail"
    /\ req[r].pdf # <<>>
    /\ req[r].held = {}
    /\ contract.status = "COMPLETED"
    /\ notifyMails = 1

MsgNoRecipients == "Company signed successfully (no recipients)"

\* the contract has no contact address that is not blank
NoRecipient(row) ==
  {TrimEmail(row.company_email), TrimEmail(row.customer_email)} \subseteq {""}

\* C27: a company-sign request that commits COMPLETED while the contract has
\* no non-blank contact address ends with the no-recipients success:
\* nothing is rendered, countersigned or emailed, final_sent_at stays null.
C27_NoRecipientsStops ==
  [][\A r \in DOMAIN req :
       Transitions(r) /\ req[r].kind = "COMPANY" /\ NoRecipient(contract) =>
         /\ req'[r].pc = "done"
         /\ req'[r].resp = Resp(200, MsgNoRecipients)
         /\ req'[r].pdf = <<>>
         /\ ~req'[r].sent
         /\ finalMails' = finalMails
         /\ contract'.status = "COMPLETED"
         /\ contract'.final_sent_at = NULL]_vars

C27_Witness ==
  /\ contract.status = "COMPLETED"
  /\ contract.final_sent_at = NULL
  /\ contract.company_email = BlankCompanyEmail
  /\ finalMails = 0
  /\ \E r \in DOMAIN req : req[r].pc = "done" /\ req[r].resp = Resp(200, MsgNoRecipients)

\* the document the final email has to carry
ExpectedAttachment ==
  IF oneAuthenEnabled THEN <<"oneauthen", "render">> ELSE <<"render">>

\* C28: the final email carries the response of the signing authority to
\* the rendered bytes when countersigning is enabled and the rendered bytes
\* otherwise; it is sent only by a request whose earlier pipeline steps
\* succeeded, and final_sent_at is written only by a request that has sent it.
C28_AttachmentIsSignedBytes ==
  [][/\ \A r \in DOMAIN req :
          /\ req[r].pc = "mail" => req[r].pdf = ExpectedAttachment
          /\ req'[r].pc = "mail" => req'[r].pdf = ExpectedAttachment
          /\ req[r].pc = "sign" => oneAuthenEnabled /\ req[r].pdf = <<"render">>
     /\ finalMails' # finalMails =>
          \E r \in DOMAIN req :
            req[r].pc = "mail" /\ req'[r].sent /\ req[r].pdf = ExpectedAttachment
     /\ contract'.final_sent_at # contract.final_sent_at =>
          \E r \in DOMAIN req :
            req[r].pc = "bookkeep" /\ req[r].sent /\ finalMails >= 1]_vars

C28_Witness ==
  /\ oneAuthenEnabled
  /\ contract.final_sent_at = NULL
  /\ \E r \in DOMAIN req :
       req[r].pc = "bookkeep" /\ req[r].sent /\ req[r].pdf = <<"oneauthen", "render">>

\* C29: the company notification is sent only by a customer-sign request
\* that has committed the transition to CUSTOMER_SIGNED and has a company
\* address; every such request goes on to the notification; a request that
\* ends partial or rejected sends none.
C29_NotifyIffTransition ==
  [][/\ notifyMails' # notifyMails =>
          \E r \in DOMAIN req :
            /\ req[r].pc = "notify" /\ req[r].kind = "CUSTOMER"
            /\ req[r].row.status = "PENDING" /\ contract.status = "CUSTOMER_SIGNED"
            /\ TrimEmail(req[r].row.company_email) # ""
            /\ notifyMails' = notifyMails + 1
     /\ \A r \in DOMAIN req :
          /\ Commits(r) /\ req[r].kind = "CUSTOMER" =>
               (req'[r].pc = "notify") =
                 (contract'.status = "CUSTOMER_SIGNED"
                  /\ req[r].row.company_email \notin {NULL, ""})
          /\ req'[r].pc = "done" /\ req[r].pc # "notify" /\ req'[r] # req[r] =>
               notifyMails' = notifyMails]_vars

C29_Witness ==
  /\ notifyMails = 1
  /\ contract.status = "CUSTOMER_SIGNED"
  /\ \E r \in DOMAIN req :
       /\ req[r].pc = "done" /\ req[r].kind = "CUSTOMER"
       /\ req[r].resp = Resp(200, MsgCustomerSigned)

\* list has no element twice, has exactly the elements of src, and orders
\* them by their first occurrence in src
FirstIndex(src, x) == CHOOSE k \in 1..Len(src) : src[k] = x /\ \A m \in 1..(k - 1) : src[m] # x

OrderedDistinct(list, src) ==
  /\ \A i, j \in 1..Len(list) : i # j => list[i] # list[j]
  /\ SeqToSet(list) = SeqToSet(src)
  /\ \A i, j \in 1..Len(list) : i < j => FirstIndex(src, list[i]) < FirstIndex(src, list[j])

\* sub has no element twice and keeps the order of list
SubList(sub, list) ==
  /\ \A i, j \in 1..Len(sub) : i # j => sub[i] # sub[j]
  /\ SeqToSet(sub) \subseteq SeqToSet(list)
  /\ \A i, j \in 1..Len(sub) : i < j => FirstIndex(list, sub[i]) < FirstIndex(list, sub[j])

\* the lower-cased name of role x contains word w
Names(x, w) == \E i \in 1..Len(x) : LowerWord(x[i]) = w

\* customer and company are the partition of list by the naming convention
Partition(list, customer, company) ==
  /\ SubList(customer, list) /\ SubList(company, list)
  /\ SeqToSet(customer) \cap SeqToSet(company) = {}
  /\ \A i \in 1..Len(list) :
       LET x == list[i]
       IN  /\ Names(x, "customer") => x \in SeqToSet(customer) /\ x \notin SeqToSet(company)
           /\ Names(x, "company") /\ ~Names(x, "customer") =>
                x \in SeqToSet(company) /\ x \notin SeqToSet(customer)
           /\ ~Names(x, "customer") /\ ~Names(x, "company") =>
                x \notin SeqToSet(customer) /\ x \notin SeqToSet(company)

\* the roles of the entries as written: role, or id when role is absent
WrittenRoles(cfg) ==
  LET w == [i \in 1..Len(cfg) |-> IF cfg[i].role # <<>> THEN cfg[i].role ELSE cfg[i].id]
  IN  SelectSeq(w, Truthy)

\* the roles of the entries as read: blanks around a role or id are dropped,
\* a role that is absent or blank gives way to the id, names are cut to
\* their first MaxRoleLen characters, entries left with no name are skipped
Shorten(x) == IF StrLen(x) > MaxRoleLen THEN Slice(x, MaxRoleLen) ELSE x

ReadRoles(cfg) ==
  LET w == [i \in 1..Len(cfg) |->
              IF Trim(cfg[i].role) # <<>> THEN Shorten(Trim(cfg[i].role))
              ELSE Shorten(Trim(cfg[i].id))]
  IN  SelectSeq(w, Truthy)

\* what a finished request reports about the required roles of its party
\* is the party's part of the partition of the stored configuration
ReportsRequired(customer, company) ==
  \A r \in DOMAIN req :
    req[r].pc = "done" /\ req[r].resp.message = "Role not allowed" =>
      req[r].resp.list = IF req[r].kind = "CUSTOMER" THEN customer ELSE company

Unclassified ==
  {x \in SeqToSet(extractRequiredRolesFromConfig(config)) :
     ~Names(x, "customer") /\ ~Names(x, "company")}

\* C31: while the configuration lists a role of neither naming convention,
\* no signature of that role is stored, committed or in a transaction, and
\* the contract is not COMPLETED.
C31_UnclassifiedBlocksCompletion ==
  Unclassified # {} =>
    /\ \A x \in sigs : x.role \notin Unclassified
    /\ \A r \in DOMAIN req : \A x \in req[r].view : x.role \notin Unclassified
    /\ contract.status # "COMPLETED"

MsgNoRequiredRoles == "Cannot determine required roles"

\* C32: a signing call that loads the contract in its party's stage while
\* the configuration yields no required role of that party is answered 500
\* with the configuration error and writes nothing; a contract whose
\* configuration yields no customer role stays PENDING, and one that yields
\* no company role does not become COMPLETED.
C32_EmptyRequiredSetIsConfigError ==
  [][/\ \A r \in DOMAIN req :
          /\ Arrives(r)
          /\ req'[r].row.status = PhaseStatus(req'[r].kind)
          /\ Required(req'[r].kind) = <<>>
          => /\ req'[r].pc = "done"
             /\ req'[r].resp = Resp(500, MsgNoRequiredRoles)
             /\ sigs' = sigs
             /\ contract' = contract
     /\ Required("CUSTOMER") = <<>> =>
          contract.status = "PENDING" /\ contract'.status = "PENDING" /\ sigs' = NoSigs
     /\ Required("COMPANY") = <<>> => contract'.status # "COMPLETED"]_vars

C32_Witness ==
  /\ config = CFG_NO_COMPANY
  /\ contract.status = "CUSTOMER_SIGNED"
  /\ \E r \in DOMAIN req :
       /\ req[r].pc = "done"
       /\ req[r].kind = "COMPANY"
       /\ req[r].resp = Resp(500, MsgNoRequiredRoles)

\* C33: the contracts created so far have pairwise different document
\* identifiers, also when two of them were created in the same clock tick.
C33_DocumentIdsUnique ==
  \A i, j \in 1..Len(documents) :
    i # j => documents[i].document_id # documents[j].document_id

\* request r has sent the final email and waits for a pool connection for
\* its final_sent_at update
AwaitsConnection(r) == req[r].pc = "bookkeep" /\ req[r].sent /\ ~ConnectionFree

\* C34: a request that has committed COMPLETED and sent the final email is
\* never left waiting for a pool connection while every connection is held
\* by a request that waits in the same way (from such a state no request
\* ever responds).
C34_FinalizationNotBlocked ==
  ~ \E r \in DOMAIN req :
      /\ AwaitsConnection(r)
      /\ \A o \in DOMAIN req : req[o].conn = "held" => AwaitsConnection(o)

\* C35: a request holds its connection exactly from getConnection to its
\* response; its transaction is open until the commit or the rollback and
\* ended from then on; no connection is in the pool with an open
\* transaction.
C35_TransactionEndedBeforeRelease ==
  \A r \in DOMAIN req :
    /\ req[r].pc \in {"idle", "done"} => req[r].conn = "pool" /\ req[r].tx = "none"
    /\ req[r].pc \in {"upsert", "check"} => req[r].conn = "held" /\ req[r].tx = "open"
    /\ req[r].pc \in {"notify", "render", "sign", "mail", "bookkeep"} =>
         req[r].conn = "held" /\ req[r].tx = "committed"

C35_Witness ==
  /\ contract.status = "COMPLETED"
  /\ \E r \in DOMAIN req :
       /\ req[r].pc = "done"
       /\ req[r].row.status = "CUSTOMER_SIGNED"
       /\ req[r].resp = Failed("COMPANY")
       /\ req[r].conn = "pool"
       /\ req[r].tx = "none"

\* the final email of request r is attempted in this step and not sent
FinalMailFails(r) ==
  req[r].pc = "mail" /\ req'[r] # req[r] /\ finalMails' = finalMails

\* C36: when the send of the final email throws, the request ends with the
\* generic company-sign failure; its transaction was committed before, so
\* the rollback of the error handler undoes nothing: the contract stays
\* COMPLETED with final_sent_at null, the signatures stay, and no
\* final_sent_at update is made.
C36_FinalMailFailureKeepsCompleted ==
  [][\A r \in DOMAIN req :
       FinalMailFails(r) =>
         /\ req[r].tx = "committed"
         /\ req'[r].pc = "done"
         /\ req'[r].resp = Failed("COMPANY")
         /\ ~req'[r].sent
         /\ contract' = contract
         /\ contract.status = "COMPLETED"
         /\ contract.final_sent_at = NULL
         /\ sigs' = sigs
         /\ finalWrites' = finalWrites]_vars

C36_Witness ==
  /\ contract.status = "COMPLETED"
  /\ contract.final_sent_at = NULL
  /\ finalMails = 0
  /\ finalWrites = 0
  /\ AllSigned("COMPANY")
  /\ \E r \in DOMAIN req :
       /\ req[r].pc = "done" /\ req[r].kind = "COMPANY"
       /\ req[r].row.status = "CUSTOMER_SIGNED"
       /\ req[r].resp = Failed("COMPANY")

\* a step of send-sign-email: no signing request arrives or moves
SendsSignEmail == req' = req /\ calls' = calls

\* C37: a send-sign-email call changes nothing but the customer address of
\* the contract, which it sets to the valid address it was given; and at
\* every stage of the contract, COMPLETED included, a call with a valid
\* address can set that address, whatever address is stored.
C37_SendSignEmailFrame ==
  [][/\ SendsSignEmail =>
          /\ contract'.status = contract.status
          /\ contract'.final_sent_at = contract.final_sent_at
          /\ contract'.company_email = contract.company_email
          /\ isEmail(contract'.customer_email)
          /\ sigs' = sigs
          /\ config' = config
          /\ notifyMails' = notifyMails /\ finalMails' = finalMails
          /\ finalWrites' = finalWrites
     /\ \A e \in addresses :
          isEmail(e) => ENABLED (SendSignEmail(e, DOC) /\ contract'.customer_email = e)]_vars

C37_Witness ==
  /\ contract.status = "COMPLETED"
  /\ contract.final_sent_at # NULL
  /\ contract.customer_email = "other@example.com"
  /\ sigs # NoSigs

\* C38: a customer-sign request that arrives while the contract is not
\* PENDING ends at once with a rejection and changes nothing, and no step
\* takes a COMPLETED contract to another status.
C38_CustomerSignOnlyOnPending ==
  [][/\ \A r \in DOMAIN req :
          Arrives(r) /\ req'[r].kind = "CUSTOMER" /\ contract.status # "PENDING"
          => req'[r].pc = "done" /\ req'[r].resp.status >= 400
     /\ contract.status = "COMPLETED" => contract'.status = "COMPLETED"]_vars

\* C39: the status moves to CUSTOMER_SIGNED, resp. COMPLETED, only in a step
\* after which every required role of that party has a stored signature.
C39_TransitionNeedsFullSet ==
  [][\A kind \in Parties :
       contract'.status # contract.status /\ contract'.status = NextStatus(kind) =>
         StoredRequired(kind, sigs') = SeqToSet(Required(kind))]_vars

\* C40: in every partial-success response the number of signed roles plus
\* the number of missing roles is the number of required roles, and the
\* number of signed roles is below the number of required roles.
C40_PartialCountsAddUp ==
  \A r \in DOMAIN req :
    req[r].pc = "done" /\ req[r].resp.message = PartialMessage(req[r].kind) =>
      /\ req[r].resp.signedCount + Len(req[r].resp.list) = req[r].resp.requiredCount
      /\ req[r].resp.signedCount < req[r].resp.requiredCount

C40_Witness ==
  \E r \in DOMAIN req :
    /\ req[r].pc = "done" /\ req[r].resp.message = PartialMessage(req[r].kind)
    /\ req[r].resp.signedCount >= 1 /\ req[r].resp.list # <<>>
    /\ req[r].resp.signedCount = Cardinality(StoredRequired(req[r].kind, sigs))

====
